---- MODULE Spec2Model ----
(***************************************************************************)
(* LyricSensei server: the song search pipeline (server/lyricsApi.ts,      *)
(* server/openai.ts, server/routes.ts) and the storage it writes           *)
(* (server/storage.ts, shared/schema.ts).                                   *)
(*                                                                         *)
(* Strings are sequences of tokens; a token is a run of characters that    *)
(* the code's patterns never cut (a label such as "Genre:", a word, one    *)
(* white-space character, a run of four digits).  The empty string is <<>>.*)
(* An optional value is a set: {} is undefined, {v} is the value v.        *)
(* A JS object is a function from the keys it has to their values, so the  *)
(* spread {...a, ...b} is b @@ a.                                          *)
(***************************************************************************)
EXTENDS Integers, Sequences, FiniteSets, TLC

\* ------------------------------------------------------------------ bounds
MaxAnalyses  == 2   \* search requests that reach createSongAnalysis
MaxFavorites == 2   \* rows of the favorites table
MaxLoads     == 3   \* loads the DataProvider starts
MaxPieces    == 5   \* pieces a search query is put together from

\* ------------------------------------------------------- JS value helpers
Undef == {}
Some(v) == {v}
Val(o) == CHOOSE v \in o : TRUE

\* JS truthiness of an optional string / an optional number (0 stands for
\* the falsy numbers 0 and NaN).
TruthyStr(o) == o # {} /\ o # {<<>>}
TruthyNum(o) == o # {} /\ o # {0}
OrStr(a, b) == IF TruthyStr(a) THEN a ELSE b
OrNum(a, b) == IF TruthyNum(a) THEN a ELSE b

\* o.k for a key the object may lack
Get(o, k) == IF k \in DOMAIN o THEN o[k] ELSE Undef

\* ------------------------------------------------------- string helpers
WS == {" ", "\n"}

RECURSIVE TrimStart(_)
TrimStart(s) == IF s # <<>> /\ Head(s) \in WS THEN TrimStart(Tail(s)) ELSE s

RECURSIVE TrimEnd(_)
TrimEnd(s) ==
  IF s # <<>> /\ s[Len(s)] \in WS THEN TrimEnd(SubSeq(s, 1, Len(s) - 1)) ELSE s

\* String.prototype.trim
Trim(s) == TrimEnd(TrimStart(s))

\* positions at which the token sequence sep occurs in s
Occurrences(s, sep) ==
  {i \in 1..(Len(s) - Len(sep) + 1) : SubSeq(s, i, i + Len(sep) - 1) = sep}

\* String.prototype.includes
Includes(s, sep) == Occurrences(s, sep) # {}

Min(S) == CHOOSE x \in S : \A y \in S : x <= y

\* s.split(sep)[0]
SplitHead(s, sep) == SubSeq(s, 1, Min(Occurrences(s, sep)) - 1)

\* s.split(sep)[1]: the second part only
SplitRest_secondPart(s, sep) ==
  LET rest == SubSeq(s, Min(Occurrences(s, sep)) + Len(sep), Len(s))
  IN IF Occurrences(rest, sep) = {} THEN rest
     ELSE SubSeq(rest, 1, Min(Occurrences(rest, sep)) - 1)

\* s.split(sep).slice(1).join(sep): what follows the first separator
SplitRest(s, sep) == SubSeq(s, Min(Occurrences(s, sep)) + Len(sep), Len(s))

\* ------------------------------------------------------------ parseQuery
Dash  == <<" ", "-", " ">>
Colon == <<":", " ">>
\* the pattern without its i flag
ByWords_caseSensitive == {"by"}

ByWords == {"by", "BY"}

AllWS(s, i, j) == \A k \in i..j : s[k] \in WS

\* /^(.+?)\s+by\s+(.+)$/i : the positions p of a "by" that has white space
\* on both sides, at least one character before that white space and at
\* least one character after it ("." does not match a line break).
NoBreak(s, i, j) == \A k \in i..j : s[k] # "\n"

\* a match is (k, p): group 1 is s[1..k], white space s[k+1..p-1], by at p
ByMatches(s) ==
  {m \in (1..Len(s)) \X (1..Len(s)) :
     LET k == m[1]
         p == m[2]
     IN /\ k + 1 <= p - 1
        /\ AllWS(s, k + 1, p - 1)
        /\ NoBreak(s, 1, k)
        /\ s[p] \in ByWords
        /\ \E q \in (p + 1)..(Len(s) - 1) :
              /\ AllWS(s, p + 1, q)
              /\ NoBreak(s, q + 1, Len(s))}

\* the lazy first group takes the shortest prefix that lets the rest match
ByFirst(s) ==
  LET k == Min({m[1] : m \in ByMatches(s)})
      p == Min({m[2] : m \in {x \in ByMatches(s) : x[1] = k}})
  IN <<k, p>>

\* the greedy \s+ after "by" takes all the white space it can while leaving
\* one character to the last group
ByGroup2(s, p) ==
  LET Q == {q \in (p + 1)..(Len(s) - 1) :
              AllWS(s, p + 1, q) /\ NoBreak(s, q + 1, Len(s))}
      q == CHOOSE x \in Q : \A y \in Q : y <= x
  IN SubSeq(s, q + 1, Len(s))

\* /^(.+?)\s*\((.+?)\)$/ : a match is (k, j): group 1 is s[1..k], white
\* space s[k+1..j-1], "(" at j, group 2 is s[j+1..Len-1], ")" is last
ParenMatches(s) ==
  {m \in (1..Len(s)) \X (1..Len(s)) :
     LET k == m[1]
         j == m[2]
     IN /\ k < j
        /\ AllWS(s, k + 1, j - 1)
        /\ NoBreak(s, 1, k)
        /\ s[j] = "("
        /\ j + 1 <= Len(s) - 1
        /\ NoBreak(s, j + 1, Len(s) - 1)
        /\ s[Len(s)] = ")"}

ParenFirst(s) ==
  LET k == Min({m[1] : m \in ParenMatches(s)})
      j == Min({m[2] : m \in {x \in ParenMatches(s) : x[1] = k}})
  IN <<k, j>>

\* the "by" pattern tried before the " - " split
parseQuery_byFirst(query) ==
  LET trimmed == Trim(query)
  IN IF ByMatches(trimmed) # {}
       THEN LET m == ByFirst(trimmed)
            IN [artist |-> Some(Trim(ByGroup2(trimmed, m[2]))),
                title  |-> Some(Trim(SubSeq(trimmed, 1, m[1])))]
     ELSE IF Includes(trimmed, Dash)
       THEN [artist |-> Some(Trim(SplitHead(trimmed, Dash))),
             title  |-> Some(Trim(SplitRest(trimmed, Dash)))]
     ELSE IF Includes(trimmed, Colon)
       THEN [artist |-> Some(Trim(SplitHead(trimmed, Colon))),
             title  |-> Some(Trim(SplitRest(trimmed, Colon)))]
     ELSE IF ParenMatches(trimmed) # {}
       THEN LET m == ParenFirst(trimmed)
            IN [artist |-> Some(Trim(SubSeq(trimmed, m[2] + 1, Len(trimmed) - 1))),
                title  |-> Some(Trim(SubSeq(trimmed, 1, m[1])))]
     ELSE [artist |-> Undef, title |-> Some(trimmed)]

\* parseQuery: artist is Undef for the code's null
parseQuery(query) ==
  LET trimmed == Trim(query)
  IN IF Includes(trimmed, Dash)
       THEN [artist |-> Some(Trim(SplitHead(trimmed, Dash))),
             title  |-> Some(Trim(SplitRest(trimmed, Dash)))]
     ELSE IF Includes(trimmed, Colon)
       THEN [artist |-> Some(Trim(SplitHead(trimmed, Colon))),
             title  |-> Some(Trim(SplitRest(trimmed, Colon)))]
     ELSE IF ByMatches(trimmed) # {}
       THEN LET m == ByFirst(trimmed)
            IN [artist |-> Some(Trim(ByGroup2(trimmed, m[2]))),
                title  |-> Some(Trim(SubSeq(trimmed, 1, m[1])))]
     ELSE IF ParenMatches(trimmed) # {}
       THEN LET m == ParenFirst(trimmed)
            IN [artist |-> Some(Trim(SubSeq(trimmed, m[2] + 1, Len(trimmed) - 1))),
                title  |-> Some(Trim(SubSeq(trimmed, 1, m[1])))]
     ELSE [artist |-> Undef, title |-> Some(trimmed)]

\* ------------------------------------------------------ source adapters
\* An adapter's result is an optional object: Undef is the code's null.
\* What the remote service answered is the adapter's input `resp`.

\* getGeniusLyrics: the body of the try is one return of a literal
Placeholder ==
  <<"High-quality lyrics from Genius (lyrics extraction would require additional implementation)">>

getGeniusLyrics == Some(Placeholder)

\* searchGenius.  resp.kind: "throw" (fetch rejects), "notok", "nohits",
\* "hit" with the first hit's title, artist and the year read from
\* release_date_for_display (Undef when the field or the 4 digits are missing)
searchGenius(hasToken, resp) ==
  IF ~hasToken THEN Undef
  ELSE IF resp.kind # "hit" THEN Undef
  ELSE Some([title  |-> resp.title,
             artist |-> resp.artist,
             year   |-> resp.year,
             lyrics |-> getGeniusLyrics])

\* searchLyricsOvh.  resp.kind: "throw", "notok", "data" with data.lyrics
searchLyricsOvh(query, resp) ==
  LET p == parseQuery(query)
  IN IF ~TruthyStr(p.artist) \/ ~TruthyStr(p.title) THEN Undef
     ELSE IF resp.kind # "data" THEN Undef
     ELSE IF ~TruthyStr(resp.lyrics) THEN Undef
     ELSE Some([title |-> p.title, artist |-> p.artist, lyrics |-> resp.lyrics])

\* extractSongInfo
UnknownArtist == <<"Unknown Artist">>

\* without the fallback: nothing when the query gives no artist and title
extractSongInfo_noFallback(query) ==
  LET p == parseQuery(query)
  IN IF ~TruthyStr(p.artist) \/ ~TruthyStr(p.title)
       THEN Undef
       ELSE Some([title |-> p.title, artist |-> p.artist])

extractSongInfo(query) ==
  LET p == parseQuery(query)
  IN IF ~TruthyStr(p.artist) \/ ~TruthyStr(p.title)
       THEN Some([title |-> Some(Trim(query)), artist |-> Some(UnknownArtist)])
       ELSE Some([title |-> p.title, artist |-> p.artist])

\* getLastFmTrackInfo.  resp.kind: "throw", "notok", "notrack", "track" with
\* the first tag's name (Undef without tags) and parseInt of the album year
\* (Undef without the attribute, 0 for NaN)
getLastFmTrackInfo(hasKey, resp) ==
  IF ~hasKey THEN Undef
  ELSE IF resp.kind # "track" THEN Undef
  ELSE Some([genre |-> resp.genre, year |-> resp.year])

\* lastFmData?.k
OptGet(o, k) == IF o = Undef THEN Undef ELSE Get(Val(o), k)

NotFound == <<"Lyrics not found">>

\* the object searchSong returns after a Genius hit
MergeGenius(g, lastFmData) ==
  [title  |-> g.title,
   artist |-> g.artist,
   genre  |-> OrStr(OptGet(lastFmData, "genre"), Get(g, "genre")),
   year   |-> OrNum(OptGet(lastFmData, "year"), Get(g, "year")),
   lyrics |-> OrStr(g.lyrics, Some(NotFound))]

\* the object searchSong returns after a lyrics.ovh result
MergeLyricsOvh(l, lastFmData) ==
  [genre |-> OrStr(OptGet(lastFmData, "genre"), Get(l, "genre")),
   year  |-> OrNum(OptGet(lastFmData, "year"), Get(l, "year"))] @@ l

\* searchSong when a rejected fetch is not caught inside searchGenius: the
\* catch of searchSong answers null
searchSong_geniusThrows(query, cfg, x) ==
  IF cfg.genius /\ x.genius.kind = "throw"
    THEN [info |-> Undef, source |-> Undef, calls |-> <<"searchGenius">>]
  ELSE IF searchGenius(cfg.genius, x.genius) # Undef
    THEN [info   |-> Some(MergeGenius(Val(searchGenius(cfg.genius, x.genius)),
                                      getLastFmTrackInfo(cfg.lastfm, x.lastfm))),
          source |-> searchGenius(cfg.genius, x.genius),
          calls  |-> <<"searchGenius", "getLastFmTrackInfo">>]
  ELSE IF searchLyricsOvh(query, x.ovh) # Undef
    THEN [info   |-> Some(MergeLyricsOvh(Val(searchLyricsOvh(query, x.ovh)),
                                         getLastFmTrackInfo(cfg.lastfm, x.lastfm))),
          source |-> searchLyricsOvh(query, x.ovh),
          calls  |-> <<"searchGenius", "searchLyricsOvh", "getLastFmTrackInfo">>]
  ELSE [info   |-> extractSongInfo(query),
        source |-> Undef,
        calls  |-> <<"searchGenius", "searchLyricsOvh", "extractSongInfo">>]

\* searchSong asking Genius a second time when the first answer was absent
searchSong_retriesGenius(query, cfg, x) ==
  IF searchGenius(cfg.genius, x.genius) # Undef
    THEN [info   |-> Some(MergeGenius(Val(searchGenius(cfg.genius, x.genius)),
                                      getLastFmTrackInfo(cfg.lastfm, x.lastfm))),
          source |-> searchGenius(cfg.genius, x.genius),
          calls  |-> <<"searchGenius", "getLastFmTrackInfo">>]
  ELSE IF searchLyricsOvh(query, x.ovh) # Undef
    THEN [info   |-> Some(MergeLyricsOvh(Val(searchLyricsOvh(query, x.ovh)),
                                         getLastFmTrackInfo(cfg.lastfm, x.lastfm))),
          source |-> searchLyricsOvh(query, x.ovh),
          calls  |-> <<"searchGenius", "searchGenius", "searchLyricsOvh",
                       "getLastFmTrackInfo">>]
  ELSE [info   |-> extractSongInfo(query),
        source |-> Undef,
        calls  |-> <<"searchGenius", "searchGenius", "searchLyricsOvh",
                     "extractSongInfo">>]

\* searchSong: cfg is the process environment (which credentials are set),
\* x the answers of the three services.  The result carries the calls made.
searchSong(query, cfg, x) ==
  LET geniusResult    == searchGenius(cfg.genius, x.genius)
      lastFmData      == getLastFmTrackInfo(cfg.lastfm, x.lastfm)
      lyricsOvhResult == searchLyricsOvh(query, x.ovh)
  IN IF geniusResult # Undef
       THEN [info   |-> Some(MergeGenius(Val(geniusResult), lastFmData)),
             source |-> geniusResult,
             calls  |-> <<"searchGenius", "getLastFmTrackInfo">>]
     ELSE IF lyricsOvhResult # Undef
       THEN [info   |-> Some(MergeLyricsOvh(Val(lyricsOvhResult), lastFmData)),
             source |-> lyricsOvhResult,
             calls  |-> <<"searchGenius", "searchLyricsOvh", "getLastFmTrackInfo">>]
     ELSE [info   |-> extractSongInfo(query),
           source |-> Undef,
           calls  |-> <<"searchGenius", "searchLyricsOvh", "extractSongInfo">>]

\* getSongDetails with a catch block that returns an empty object
getSongDetails_emptyOnError(title, artist, resp) ==
  IF resp.kind = "recording"
    THEN [title  |-> OrStr(resp.title, title),
          artist |-> OrStr(resp.artist, artist),
          year   |-> resp.year,
          genre  |-> resp.genre]
  ELSE IF resp.kind = "throw" THEN [k \in {} |-> Undef]
  ELSE [title |-> title, artist |-> artist]

\* getSongDetails.  resp.kind: "throw", "notok", "norecordings",
\* "recording" with recording.title, the first artist credit's name, the
\* parseInt of the first release's date (Undef without a date, 0 for NaN)
\* and the first tag's name
getSongDetails(title, artist, resp) ==
  IF resp.kind = "recording"
    THEN [title  |-> OrStr(resp.title, title),
          artist |-> OrStr(resp.artist, artist),
          year   |-> resp.year,
          genre  |-> resp.genre]
    ELSE [title |-> title, artist |-> artist]

\* { ...songInfo, ...detailedInfo }
Spread(songInfo, detailedInfo) == detailedInfo @@ songInfo

\* ------------------------------------------------------- analysis engine
\* openai.chat.completions.create answers llm.kind "throw" (the call
\* rejects) or "content" with message.content: Undef for null, else the
\* text.  A JSON text is [json |-> "malformed"], [json |-> "null"] or
\* [json |-> "object", obj |-> the object it denotes].

EmptyObject == [k \in {} |-> Undef]

\* JSON.parse(content || "{}"): [threw |-> TRUE] for a SyntaxError
JSONparse(content) ==
  IF content = Undef \/ Val(content).json = "empty"
    THEN [threw |-> FALSE, isNull |-> FALSE, value |-> EmptyObject]
  ELSE IF Val(content).json = "malformed"
    THEN [threw |-> TRUE, isNull |-> FALSE, value |-> EmptyObject]
  ELSE IF Val(content).json = "null"
    THEN [threw |-> FALSE, isNull |-> TRUE, value |-> EmptyObject]
  ELSE [threw |-> FALSE, isNull |-> FALSE, value |-> Val(content).obj]

DefaultMeaning        == <<"Unable to analyze the meaning of this song.">>
DefaultMood_blank == <<"">>

DefaultMood           == <<"Unknown">>
DefaultInterpretation == <<"No additional interpretation available.">>

\* Array.isArray(result.themes) ? result.themes : []
ThemesOf(result) ==
  IF "themes" \in DOMAIN result /\ result.themes.isArray
    THEN result.themes.items ELSE <<>>

\* analyzeLyrics with a catch block that returns the defaults
analyzeLyrics_swallow(llm) ==
  LET parsed == JSONparse(llm.content)
      result == parsed.value
      ok == llm.kind # "throw" /\ ~parsed.threw /\ ~parsed.isNull
  IN [threw          |-> FALSE,
      meaning        |-> IF ok THEN Val(OrStr(Get(result, "meaning"), Some(DefaultMeaning)))
                         ELSE DefaultMeaning,
      themes         |-> IF ok THEN ThemesOf(result) ELSE <<>>,
      mood           |-> IF ok THEN Val(OrStr(Get(result, "mood"), Some(DefaultMood)))
                         ELSE DefaultMood,
      interpretation |-> IF ok THEN Val(OrStr(Get(result, "interpretation"),
                                              Some(DefaultInterpretation)))
                         ELSE DefaultInterpretation]

\* analyzeLyrics: [threw |-> TRUE] when the catch block rethrows (the call
\* rejected, JSON.parse threw, or result is null and result.meaning threw)
analyzeLyrics(llm) ==
  IF llm.kind = "throw" THEN [threw |-> TRUE]
  ELSE LET parsed == JSONparse(llm.content)
           result == parsed.value
       IN IF parsed.threw \/ parsed.isNull THEN [threw |-> TRUE]
          ELSE [threw          |-> FALSE,
                meaning        |-> Val(OrStr(Get(result, "meaning"), Some(DefaultMeaning))),
                themes         |-> ThemesOf(result),
                mood           |-> Val(OrStr(Get(result, "mood"), Some(DefaultMood))),
                interpretation |-> Val(OrStr(Get(result, "interpretation"),
                                             Some(DefaultInterpretation)))]

DefaultAnalysis == <<"Unable to generate analysis for this song.">>

\* generateSongMeaning
generateSongMeaning(llm) ==
  IF llm.kind = "throw" THEN [threw |-> TRUE]
  ELSE [threw |-> FALSE, text |-> Val(OrStr(llm.content, Some(DefaultAnalysis)))]

\* Array.prototype.join
RECURSIVE Join(_, _)
Join(items, sep) ==
  IF items = <<>> THEN <<>>
  ELSE IF Len(items) = 1 THEN items[1]
  ELSE items[1] \o sep \o Join(Tail(items), sep)

\* the template string of routes.ts line 56
DisplayString(a) ==
  a.meaning \o <<"\n", "\n", "Key themes: ">> \o Join(a.themes, <<",", " ">>)
    \o <<"\n", "Mood: ">> \o a.mood \o <<"\n", "\n">> \o a.interpretation

\* ---------------------------------------------------- metadata extraction
GenreLabels == {"Genre:", "genre:"}
YearLabels  == {"Release Year:", "release year:"}
Digits4     == {"1999", "2005"}

\* parseInt of a run of four digits
parseInt(tok) == IF tok = "1999" THEN 1999 ELSE 2005

\* the white space that follows position i
RECURSIVE WsRun(_, _)
WsRun(s, i) == IF i + 1 <= Len(s) /\ s[i + 1] \in WS THEN 1 + WsRun(s, i + 1) ELSE 0

\* last position of the line that position j is on
RECURSIVE LineEnd(_, _)
LineEnd(s, j) == IF j + 1 <= Len(s) /\ s[j + 1] # "\n" THEN LineEnd(s, j + 1) ELSE j

\* /Genre:\s*(.+)/i at position i: \s* is greedy and gives white space back
\* until "." finds a character that is no line break.  The set of the
\* positions where the group may start.
GenreStarts(s, i) ==
  {j \in (i + 1)..(i + 1 + WsRun(s, i)) : j <= Len(s) /\ s[j] # "\n"}

GenreAt(s, i) == s[i] \in GenreLabels /\ GenreStarts(s, i) # {}

GenreGroupStart(s, i) == CHOOSE j \in GenreStarts(s, i) : \A k \in GenreStarts(s, i) : k <= j

\* /Release Year:\s*(\d{4})/i at position i: the position of the digits
YearAt(s, i) ==
  /\ s[i] \in YearLabels
  /\ i + 1 + WsRun(s, i) <= Len(s)
  /\ s[i + 1 + WsRun(s, i)] \in Digits4

\* analysis.match(/Genre:\s*(.+)/i)[1], Undef without a match
genreMatch(s) ==
  LET P == {i \in 1..Len(s) : GenreAt(s, i)}
  IN IF P = {} THEN Undef
     ELSE LET j == GenreGroupStart(s, Min(P))
          IN Some(SubSeq(s, j, LineEnd(s, j)))

\* analysis.match(/Release Year:\s*(\d{4})/i)[1], Undef without a match
yearMatch(s) ==
  LET P == {i \in 1..Len(s) : YearAt(s, i)}
  IN IF P = {} THEN Undef
     ELSE Some(s[Min(P) + 1 + WsRun(s, Min(P))])

\* .replace(/Genre:\s*.+/gi, '')
RECURSIVE StripGenre(_)
StripGenre(s) ==
  IF s = <<>> THEN <<>>
  ELSE IF GenreAt(s, 1)
    THEN StripGenre(SubSeq(s, LineEnd(s, GenreGroupStart(s, 1)) + 1, Len(s)))
  ELSE <<Head(s)>> \o StripGenre(Tail(s))

\* .replace(/Release Year:\s*\d{4}/gi, '')
RECURSIVE StripYear(_)
StripYear(s) ==
  IF s = <<>> THEN <<>>
  ELSE IF YearAt(s, 1)
    THEN StripYear(SubSeq(s, 2 + WsRun(s, 1) + 1, Len(s)))
  ELSE <<Head(s)>> \o StripYear(Tail(s))

cleanedAnalysis(analysis) == Trim(StripYear(StripGenre(analysis)))

\* genreMatch ? genreMatch[1].trim() : finalSongInfo.genre
extractedGenre(analysis, finalSongInfo) ==
  IF genreMatch(analysis) # Undef
    THEN Some(Trim(Val(genreMatch(analysis))))
    ELSE Get(finalSongInfo, "genre")

\* yearMatch ? parseInt(yearMatch[1]) : finalSongInfo.year
extractedYear(analysis, finalSongInfo) ==
  IF yearMatch(analysis) # Undef
    THEN Some(parseInt(Val(yearMatch(analysis))))
    ELSE Get(finalSongInfo, "year")

\* the record handed to storage.createSongAnalysis (routes.ts 81-88)
InsertRecord(finalSongInfo, analysis, userId) ==
  [title          |-> Val(finalSongInfo.title),
   artist         |-> Val(finalSongInfo.artist),
   genre          |-> OrStr(extractedGenre(analysis, finalSongInfo), Undef),
   yearReleased   |-> OrNum(extractedYear(analysis, finalSongInfo), Undef),
   lyricsAnalysis |-> cleanedAnalysis(analysis),
   userId         |-> userId]

\* ---------------------------------------------------------------- storage
\* A table is the sequence of its rows in insertion order; serial ids are
\* the positions, and no operation of storage.ts deletes from song_analyses.

\* createSongAnalysis as an upsert on (title, artist)
createSongAnalysis_upsert(table, analysis) ==
  LET same == {i \in 1..Len(table) :
                 table[i].title = analysis.title /\ table[i].artist = analysis.artist}
  IN IF same = {}
       THEN [table |-> Append(table, [id |-> Len(table) + 1] @@ analysis),
             row   |-> [id |-> Len(table) + 1] @@ analysis]
       ELSE LET i == CHOOSE j \in same : TRUE
            IN [table |-> [table EXCEPT ![i] = [id |-> i] @@ analysis],
                row   |-> [id |-> i] @@ analysis]

\* createSongAnalysis: insert ... returning
createSongAnalysis(table, analysis) ==
  LET row == [id |-> Len(table) + 1] @@ analysis
  IN [table |-> Append(table, row), row |-> row]

\* getSongAnalysis
getSongAnalysis(table, id) == {r \in {table[i] : i \in 1..Len(table)} : r.id = id}

\* addToSearchHistory
addToSearchHistory(table, search) == Append(table, search)

\* the history object with the id of the row after the new one
HistoryRecord_nextId(userId, query, songAnalysis) ==
  [userId |-> userId, searchQuery |-> query, songAnalysisId |-> songAnalysis.id + 1]

\* the object routes.ts 91-95 hands to addToSearchHistory
HistoryRecord(userId, query, songAnalysis) ==
  [userId |-> userId, searchQuery |-> query, songAnalysisId |-> songAnalysis.id]

\* clearUserSearchHistory
clearUserSearchHistory(table, userId) ==
  LET Keep(r) == r.userId # userId IN SelectSeq(table, Keep)

\* isFavorite comparing the row id where it should compare song_analysis_id
isFavorite_wrongColumn(table, userId, songAnalysisId) ==
  \E i \in 1..Len(table) : table[i].userId = userId /\ i = songAnalysisId

\* isFavorite
isFavorite(table, userId, songAnalysisId) ==
  \E i \in 1..Len(table) :
     table[i].userId = userId /\ table[i].songAnalysisId = songAnalysisId

\* addToFavorites
addToFavorites(table, favorite) == Append(table, favorite)

\* removeFromFavorites
removeFromFavorites(table, userId, songAnalysisId) ==
  LET Keep(r) == ~(r.userId = userId /\ r.songAnalysisId = songAnalysisId)
  IN SelectSeq(table, Keep)

\* .limit(n)
Take(rows, n) == SubSeq(rows, 1, IF Len(rows) < n THEN Len(rows) ELSE n)

\* .orderBy(desc(createdAt)): the tables hold their rows oldest first
RECURSIVE Newest(_)
Newest(rows) == IF rows = <<>> THEN <<>> ELSE Append(Newest(Tail(rows)), Head(rows))

\* getUserSongAnalyses
getUserSongAnalyses(table, userId, limit) ==
  LET Own(r) == r.userId = userId
  IN Take(Newest(SelectSeq(table, Own)), limit)

\* getUserFavorites: the user's rows inner-joined with their analysis
getUserFavorites(favTable, analyses, userId) ==
  LET Joined(r) == r.userId = userId /\ getSongAnalysis(analyses, r.songAnalysisId) # {}
      rows == SelectSeq(favTable, Joined)
      WithAnalysis(r) ==
        [userId |-> r.userId, songAnalysisId |-> r.songAnalysisId,
         songAnalysis |-> CHOOSE a \in getSongAnalysis(analyses, r.songAnalysisId) : TRUE]
  IN Take(Newest([i \in 1..Len(rows) |-> WithAnalysis(rows[i])]), 20)

\* favorites.song_analysis_id references song_analyses.id
ForeignKeyOk(analyses, songAnalysisId) == songAnalysisId \in 1..Len(analyses)

\* ------------------------------------------------------------------ state
VARIABLES
  config,         \* process.env: which credentials are set
  songAnalyses,   \* table song_analyses
  favorites,      \* table favorites
  searchHistory,  \* table search_history
  req,            \* the POST /api/songs/search request in flight
  favReq,         \* the POST /api/favorites requests in flight
  getReq,         \* the GET request answered last
  client          \* the browser: DataProvider's state and what is in flight

vars == <<config, songAnalyses, favorites, searchHistory, req, favReq,
          getReq, client>>

Users == {"u1", "u2"}
FavSlots == {1, 2}

IdleReq ==
  [pc |-> "idle", userId |-> "u1", query |-> Undef, songInfo |-> Undef,
   source |-> Undef, lastFm |-> Undef, detailedInfo |-> Undef,
   finalSongInfo |-> Undef, variant |-> "none", llm |-> Undef,
   lyricsAnalysis |-> Undef, analysis |-> Undef, saved |-> Undef,
   calls |-> <<>>, status |-> 0, body |-> Undef, parsed |-> Undef,
   answers |-> Undef, first |-> Undef]

IdleFav == [pc |-> "idle", userId |-> "u1", songAnalysisId |-> 0, status |-> 0]

IdleGet == [route |-> "none", userId |-> "u1", status |-> 0, body |-> {}]

\* useMutation's state for the two favorites mutations of a page; history
\* is the history list of the render whose toggleFavorite made the call
IdleMutation ==
  [status |-> "idle", which |-> "none", songAnalysisId |-> 0, history |-> <<>>]

\* DataContext.tsx 22-25: the provider's state before its first effect
IdleClient ==
  [userId |-> "u1", favorites |-> <<>>, history |-> <<>>, isLoading |-> FALSE,
   hasLoaded |-> FALSE, mounted |-> FALSE, started |-> 0, shown |-> 0,
   failed |-> FALSE, loads |-> {}, mutation |-> IdleMutation]

\* res.status(n).json(...): the handler is over
Respond(r, n) == [r EXCEPT !.pc = "done", !.status = n]

\* ------------------------------------------- POST /api/songs/search steps
\* routes.ts 28-33: the body's query is Undef (missing or no string) or text
SearchStart(E, again) ==
  /\ req.pc = "idle" \/ (again /\ req.pc = "done")
  /\ Len(songAnalyses) < MaxAnalyses
  /\ \E u \in Users, q \in E.queries :
       LET r == [IdleReq EXCEPT !.userId = u, !.query = q]
       IN req' = IF ~TruthyStr(q) THEN Respond(r, 400)
                 ELSE [r EXCEPT !.pc = "searchSong"]
  /\ UNCHANGED <<config, songAnalyses, favorites, searchHistory, favReq, getReq, client>>

\* routes.ts 36-40
SearchSongStep(E) ==
  /\ req.pc = "searchSong"
  /\ \E g \in E.genius, f \in E.lastfm, o \in E.ovh :
       LET x == [genius |-> g, lastfm |-> f, ovh |-> o]
           got == searchSong(Trim(Val(req.query)), config, x)
           r == [req EXCEPT !.songInfo = got.info, !.source = got.source,
                            !.lastFm = IF got.source = Undef THEN Undef
                                       ELSE getLastFmTrackInfo(config.lastfm, f),
                            !.calls = got.calls]
       IN req' = IF got.info = Undef THEN Respond(r, 404)
                 ELSE [r EXCEPT !.pc = "getSongDetails"]
  /\ UNCHANGED <<config, songAnalyses, favorites, searchHistory, favReq, getReq, client>>

\* getSongDetails asked only for a song that a lyrics source found
GetSongDetailsStep_onlyWithSource(E) ==
  /\ req.pc = "getSongDetails"
  /\ \E m \in E.musicbrainz :
       LET songInfo == Val(req.songInfo)
           detailedInfo == getSongDetails(songInfo.title, songInfo.artist, m)
       IN req' = IF req.source = Undef
                   THEN [req EXCEPT !.pc = "analyze",
                                    !.detailedInfo = Some(songInfo),
                                    !.finalSongInfo = Some(songInfo)]
                   ELSE [req EXCEPT !.pc = "analyze",
                                    !.detailedInfo = Some(detailedInfo),
                                    !.finalSongInfo = Some(Spread(songInfo, detailedInfo)),
                                    !.calls = Append(@, "getSongDetails")]
  /\ UNCHANGED <<config, songAnalyses, favorites, searchHistory, favReq, getReq, client>>

\* routes.ts 43-44
GetSongDetailsStep(E) ==
  /\ req.pc = "getSongDetails"
  /\ \E m \in E.musicbrainz :
       LET songInfo == Val(req.songInfo)
           detailedInfo == getSongDetails(songInfo.title, songInfo.artist, m)
       IN req' = [req EXCEPT !.pc = "analyze",
                             !.detailedInfo = Some(detailedInfo),
                             !.finalSongInfo = Some(Spread(songInfo, detailedInfo)),
                             !.calls = Append(@, "getSongDetails")]
  /\ UNCHANGED <<config, songAnalyses, favorites, searchHistory, favReq, getReq, client>>

\* routes.ts 46-65
AnalyzeStep(E) ==
  /\ req.pc = "analyze"
  /\ LET final == Val(req.finalSongInfo)
     IN IF TruthyStr(Get(final, "lyrics"))
          THEN \E l \in E.llmJson :
                 LET a == analyzeLyrics(l)
                     r == [req EXCEPT !.variant = "lyrics", !.llm = Some(l),
                                      !.calls = Append(@, "analyzeLyrics")]
                 IN req' = IF a.threw THEN Respond(r, 500)
                           ELSE [r EXCEPT !.pc = "createSongAnalysis",
                                          !.lyricsAnalysis = Some(a),
                                          !.analysis = Some(DisplayString(a))]
          ELSE \E l \in E.llmText :
                 LET a == generateSongMeaning(l)
                     r == [req EXCEPT !.variant = "meta", !.llm = Some(l),
                                      !.calls = Append(@, "generateSongMeaning")]
                 IN req' = IF a.threw THEN Respond(r, 500)
                           ELSE [r EXCEPT !.pc = "createSongAnalysis",
                                          !.analysis = Some(a.text)]
  /\ UNCHANGED <<config, songAnalyses, favorites, searchHistory, favReq, getReq, client>>

\* routes.ts 67-88; the insert may fail (d = "error": the database rejects)
CreateSongAnalysisStep(E) ==
  /\ req.pc = "createSongAnalysis"
  /\ \E d \in E.db :
       LET rec == InsertRecord(Val(req.finalSongInfo), Val(req.analysis), req.userId)
           out == createSongAnalysis(songAnalyses, rec)
           r == [req EXCEPT !.calls = Append(@, "createSongAnalysis")]
       IN IF d = "error"
            THEN /\ req' = Respond(r, 500)
                 /\ UNCHANGED songAnalyses
            ELSE /\ req' = [r EXCEPT !.pc = "addToSearchHistory",
                                     !.saved = Some(out.row)]
                 /\ songAnalyses' = out.table
  /\ UNCHANGED <<config, favorites, searchHistory, favReq, getReq, client>>

\* routes.ts 90-97
AddToSearchHistoryStep(E) ==
  /\ req.pc = "addToSearchHistory"
  /\ \E d \in E.db :
       LET r == [req EXCEPT !.calls = Append(@, "addToSearchHistory")]
       IN IF d = "error"
            THEN /\ req' = Respond(r, 500)
                 /\ UNCHANGED searchHistory
            ELSE /\ req' = [Respond(r, 200) EXCEPT !.body = req.saved]
                 /\ searchHistory' =
                      addToSearchHistory(searchHistory,
                        HistoryRecord(req.userId, Val(req.query), Val(req.saved)))
  /\ UNCHANGED <<config, songAnalyses, favorites, favReq, getReq, client>>

\* ------------------------------------------------ DELETE /api/search/history
\* a delete that takes the analyses the history entries point to with it
ClearHistory_cascade ==
  /\ \E u \in Users :
       LET Gone == {searchHistory[i].songAnalysisId :
                      i \in {k \in 1..Len(searchHistory) : searchHistory[k].userId = u}}
           Keep(row) == row.id \notin Gone
       IN /\ searchHistory' = clearUserSearchHistory(searchHistory, u)
          /\ songAnalyses' = SelectSeq(songAnalyses, Keep)
  /\ UNCHANGED <<config, favorites, req, favReq, getReq, client>>

ClearHistory ==
  /\ \E u \in Users : searchHistory' = clearUserSearchHistory(searchHistory, u)
  /\ UNCHANGED <<config, songAnalyses, favorites, req, favReq, getReq, client>>

\* --------------------------------------------------- POST /api/favorites
InFlight(s) == favReq[s].pc \in {"isFavorite", "addToFavorites"}

PairCount(table, u, id) ==
  Cardinality({i \in 1..Len(table) :
                 table[i].userId = u /\ table[i].songAnalysisId = id})

\* the body's songAnalysisId: Undef when insertFavoriteSchema.parse throws
FavBodies == {Undef} \cup {Some(i) : i \in 1..(MaxAnalyses + 1)}

\* routes.ts 141-145.  alone: requests are made one after the other
FavStart(s, alone) ==
  /\ ~InFlight(s)
  /\ alone => \A t \in FavSlots : ~InFlight(t)
  /\ Len(favorites) + Cardinality({t \in FavSlots : InFlight(t)}) < MaxFavorites
  /\ \E u \in Users, b \in FavBodies :
       favReq' = [favReq EXCEPT ![s] =
         IF b = Undef THEN Respond([IdleFav EXCEPT !.userId = u], 500)
         ELSE [IdleFav EXCEPT !.pc = "isFavorite", !.userId = u,
                              !.songAnalysisId = Val(b)]]
  /\ UNCHANGED <<config, songAnalyses, favorites, searchHistory, req, getReq, client>>

\* routes.ts 147-151
FavCheck(s) ==
  /\ favReq[s].pc = "isFavorite"
  /\ favReq' = [favReq EXCEPT ![s] =
       IF isFavorite(favorites, favReq[s].userId, favReq[s].songAnalysisId)
         THEN Respond(@, 400)
         ELSE [@ EXCEPT !.pc = "addToFavorites"]]
  /\ UNCHANGED <<config, songAnalyses, favorites, searchHistory, req, getReq, client>>

\* routes.ts 153-158: the insert throws on a dangling song_analysis_id
FavInsert(s) ==
  /\ favReq[s].pc = "addToFavorites"
  /\ IF ForeignKeyOk(songAnalyses, favReq[s].songAnalysisId)
       THEN /\ favorites' = addToFavorites(favorites,
                 [userId |-> favReq[s].userId,
                  songAnalysisId |-> favReq[s].songAnalysisId])
            /\ favReq' = [favReq EXCEPT ![s] = Respond(@, 201)]
       ELSE /\ favReq' = [favReq EXCEPT ![s] = Respond(@, 500)]
            /\ UNCHANGED favorites
  /\ UNCHANGED <<config, songAnalyses, searchHistory, req, getReq, client>>

\* DELETE /api/favorites/:songAnalysisId (routes.ts 161-172)
RemoveFavorite(alone) ==
  /\ alone => \A t \in FavSlots : ~InFlight(t)
  /\ \E u \in Users, id \in 1..MaxAnalyses :
       favorites' = removeFromFavorites(favorites, u, id)
  /\ UNCHANGED <<config, songAnalyses, searchHistory, req, favReq, getReq, client>>

\* the GET handlers answer in one step; db: the query is rejected
\* GET /api/songs/:id (routes.ts 122-136)
GetSong ==
  /\ \E u \in Users, id \in 1..(MaxAnalyses + 1), db \in {"ok", "error"} :
       getReq' = [route |-> "GET /api/songs/:id", userId |-> u,
                  status |-> IF db = "error" THEN 500
                             ELSE IF getSongAnalysis(songAnalyses, id) = {}
                                    THEN 404 ELSE 200,
                  body |-> IF db = "error" THEN {}
                           ELSE getSongAnalysis(songAnalyses, id)]
  /\ UNCHANGED <<config, songAnalyses, favorites, searchHistory, req, favReq, client>>

\* GET /api/songs/history (routes.ts 108-119), no limit in the query string
GetHistory ==
  /\ \E u \in Users, db \in {"ok", "error"} :
       LET analyses == getUserSongAnalyses(songAnalyses, u, 20)
       IN getReq' = [route |-> "GET /api/songs/history", userId |-> u,
                     status |-> IF db = "error" THEN 500 ELSE 200,
                     body |-> IF db = "error" THEN {}
                              ELSE {analyses[i] : i \in 1..Len(analyses)}]
  /\ UNCHANGED <<config, songAnalyses, favorites, searchHistory, req, favReq, client>>

\* GET /api/favorites (routes.ts 174-183); body: the analyses of the rows
GetFavorites ==
  /\ \E u \in Users, db \in {"ok", "error"} :
       LET rows == getUserFavorites(favorites, songAnalyses, u)
       IN getReq' = [route |-> "GET /api/favorites", userId |-> u,
                     status |-> IF db = "error" THEN 500 ELSE 200,
                     body |-> IF db = "error" THEN {}
                              ELSE {rows[i].songAnalysis : i \in 1..Len(rows)}]
  /\ UNCHANGED <<config, songAnalyses, favorites, searchHistory, req, favReq, client>>

\* ------------------------------------------------------------ environment
\* What the remote services, the language model and the database may answer.
NoResp(k) == [kind |-> k, title |-> Undef, artist |-> Undef, year |-> Undef,
              genre |-> Undef, lyrics |-> Undef]

GeniusHit(year) ==
  [NoResp("hit") EXCEPT !.title = Some(<<"t">>), !.artist = Some(<<"r">>),
                      !.year = year]

LastFmTrack(genre, year) == [NoResp("track") EXCEPT !.genre = genre, !.year = year]

OvhData(lyrics) == [NoResp("data") EXCEPT !.lyrics = lyrics]

Recording(title, artist, year, genre) ==
  [NoResp("recording") EXCEPT !.title = title, !.artist = artist,
                              !.year = year, !.genre = genre]

LlmThrow == [kind |-> "throw", content |-> Undef]
LlmContent(c) == [kind |-> "content", content |-> c]
JsonText(j) == Some([json |-> j, obj |-> EmptyObject])
JsonObject(o) == Some([json |-> "object", obj |-> o])
Themes(items) == [isArray |-> TRUE, items |-> items]
NotAList == [isArray |-> FALSE, items |-> <<>>]

PlainObject ==
  [meaning |-> Some(<<"m">>), themes |-> Themes(<<<<"love">>, <<"loss">>>>),
   mood |-> Some(<<"calm">>), interpretation |-> Some(<<"i">>)]

\* a model answer that talks about genre and year in its prose
LabelObject ==
  [meaning |-> Some(<<"m", " ", "Genre:", " ", "p">>), themes |-> Themes(<<>>),
   mood |-> Some(<<"calm">>),
   interpretation |-> Some(<<"Release Year:", " ", "2005", " ">>)]

PartialObject == [meaning |-> Some(<<"m">>), themes |-> NotAList, mood |-> Some(<<>>)]

\* the requests and answers of the search pipeline on its own
SearchEnv ==
  [configs     |-> [genius : BOOLEAN, lastfm : BOOLEAN],
   queries     |-> {Undef, Some(<<>>), Some(<<" ">>), Some(<<"a">>),
                    Some(<<" ", "b", " ", "-", " ", "a">>),
                    Some(<<"a", " ", "by", " ", "b">>),
                    Some(<<":", " ", "a">>), Some(<<"a", ":", " ", "b">>),
                    Some(<<"a", "(", "b", ")">>), Some(<<"-">>)},
   genius      |-> {NoResp("throw"), NoResp("notok"), NoResp("nohits"),
                    GeniusHit(Undef), GeniusHit(Some(1999))},
   lastfm      |-> {NoResp("throw"), NoResp("notrack"),
                    LastFmTrack(Undef, Undef), LastFmTrack(Some(<<>>), Some(0)),
                    LastFmTrack(Some(<<"rock">>), Some(2005))},
   ovh         |-> {NoResp("throw"), NoResp("notok"), OvhData(Undef),
                    OvhData(Some(<<"la">>))},
   musicbrainz |-> {NoResp("throw"), NoResp("notok"), NoResp("norecordings"),
                    Recording(Undef, Undef, Undef, Undef),
                    Recording(Some(<<"T">>), Some(<<"R">>), Some(2010), Some(<<"pop">>)),
                    Recording(Some(<<"T">>), Undef, Some(0), Undef)},
   llmJson     |-> {LlmThrow, LlmContent(Undef), LlmContent(JsonText("empty")),
                    LlmContent(JsonText("malformed")), LlmContent(JsonText("null")),
                    LlmContent(JsonObject(EmptyObject)), LlmContent(JsonObject(PlainObject)),
                    LlmContent(JsonObject(LabelObject)),
                    LlmContent(JsonObject(PartialObject))},
   llmText     |-> {LlmThrow, LlmContent(Undef), LlmContent(Some(<<>>)),
                    LlmContent(Some(<<"x">>)),
                    LlmContent(Some(<<"x", "\n", "Genre:", " ", "p", "\n",
                                      "Release Year:", " ", "1999">>)),
                    LlmContent(Some(<<"Genre:", " ", "p">>)),
                    LlmContent(Some(<<"x", "\n", "Genre:">>)),
                    LlmContent(Some(<<"Genre:", "\n", "x">>)),
                    LlmContent(Some(<<"x", "\n", "Release Year:", " ", "y">>))},
   db          |-> {"ok", "error"}]

\* the same pipeline with few answers, for the runs that fill the tables
StoreEnv ==
  [configs     |-> {[genius |-> TRUE, lastfm |-> FALSE]},
   queries     |-> {Undef, Some(<<"a">>), Some(<<" ", "b", " ", "-", " ", "a">>)},
   genius      |-> {NoResp("nohits"), GeniusHit(Some(1999))},
   lastfm      |-> {NoResp("notrack")},
   ovh         |-> {NoResp("notok"), OvhData(Some(<<"la">>))},
   musicbrainz |-> {NoResp("norecordings"),
                    Recording(Some(<<"T">>), Some(<<"R">>), Some(2010), Some(<<"pop">>))},
   llmJson     |-> {LlmThrow, LlmContent(JsonText("malformed")),
                    LlmContent(JsonText("null")),
                    LlmContent(JsonObject(EmptyObject)),
                    LlmContent(JsonObject(PlainObject))},
   llmText     |-> {LlmThrow, LlmContent(Some(<<"x">>)),
                    LlmContent(Some(<<"x", "\n", "Genre:", " ", "p">>))},
   db          |-> {"ok", "error"}]

\* ------------------------------------------------------- specifications
InitWith(E) ==
  /\ config \in E.configs
  /\ songAnalyses = <<>>
  /\ favorites = <<>>
  /\ searchHistory = <<>>
  /\ req = IdleReq
  /\ favReq = [s \in FavSlots |-> IdleFav]
  /\ getReq = IdleGet
  /\ client = IdleClient

Init == InitWith(StoreEnv)

\* the server answering searches one at a time, and clearing histories
Next ==
  \/ SearchStart(StoreEnv, TRUE)
  \/ SearchSongStep(StoreEnv)
  \/ GetSongDetailsStep(StoreEnv)
  \/ AnalyzeStep(StoreEnv)
  \/ CreateSongAnalysisStep(StoreEnv)
  \/ AddToSearchHistoryStep(StoreEnv)
  \/ ClearHistory

Spec == Init /\ [][Next]_vars

\* one search request against a fresh database, with every answer
InitSearch == InitWith(SearchEnv)

NextSearch ==
  \/ SearchStart(SearchEnv, FALSE)
  \/ SearchSongStep(SearchEnv)
  \/ GetSongDetailsStep(SearchEnv)
  \/ AnalyzeStep(SearchEnv)
  \/ CreateSongAnalysisStep(SearchEnv)
  \/ AddToSearchHistoryStep(SearchEnv)

SpecSearch == InitSearch /\ [][NextSearch]_vars

\* The favorites requests start from the tables as two completed searches
\* leave them: the search "a" by u1 and then by u2, no lyrics source
\* answering, the model answering "x".
SeedInfo ==
  Val(searchSong(<<"a">>, [genius |-> FALSE, lastfm |-> FALSE],
                 [genius |-> NoResp("nohits"), lastfm |-> NoResp("notrack"),
                  ovh |-> NoResp("notok")]).info)

SeedFinal ==
  Spread(SeedInfo, getSongDetails(SeedInfo.title, SeedInfo.artist, NoResp("norecordings")))

SeedRecord(u) ==
  InsertRecord(SeedFinal, generateSongMeaning(LlmContent(Some(<<"x">>))).text, u)

SeedAnalyses ==
  createSongAnalysis(createSongAnalysis(<<>>, SeedRecord("u1")).table,
                     SeedRecord("u2")).table

SeedHistory ==
  <<HistoryRecord("u1", <<"a">>, SeedAnalyses[1]),
    HistoryRecord("u2", <<"a">>, SeedAnalyses[2])>>

InitFav ==
  /\ config \in StoreEnv.configs
  /\ songAnalyses = SeedAnalyses
  /\ favorites = <<>>
  /\ searchHistory = SeedHistory
  /\ req = IdleReq
  /\ favReq = [s \in FavSlots |-> IdleFav]
  /\ getReq = IdleGet
  /\ client = IdleClient

\* favorites requests interleaved
NextFav ==
  \/ \E s \in FavSlots : FavStart(s, FALSE)
  \/ \E s \in FavSlots : FavCheck(s)
  \/ \E s \in FavSlots : FavInsert(s)
  \/ RemoveFavorite(FALSE)
  \/ ClearHistory

SpecFav == InitFav /\ [][NextFav]_vars

\* favorites requests made one after the other
NextSeq ==
  \/ \E s \in FavSlots : FavStart(s, TRUE)
  \/ \E s \in FavSlots : FavCheck(s)
  \/ \E s \in FavSlots : FavInsert(s)
  \/ RemoveFavorite(TRUE)
  \/ ClearHistory

SpecSeq == InitFav /\ [][NextSeq]_vars

\* favorites requests and the listings of a signed-in user
NextIsolation ==
  \/ \E s \in FavSlots : FavStart(s, TRUE)
  \/ \E s \in FavSlots : FavCheck(s)
  \/ \E s \in FavSlots : FavInsert(s)
  \/ RemoveFavorite(TRUE)
  \/ GetSong
  \/ GetHistory
  \/ GetFavorites

SpecIsolation == InitFav /\ [][NextIsolation]_vars

\* The query parser on its own.  A query is put together from at most
\* MaxPieces pieces: words, white space, the separators of the patterns and
\* their parts.  The route trims the query before searchSong hands it to
\* the adapters, which call parseQuery.
Pieces ==
  {<<"a">>, <<"b">>, <<" ">>, <<"\n">>, <<"-">>, <<":">>, <<"by">>,
   <<"(">>, <<")">>, Dash, <<" ", "BY", " ">>}

RECURSIVE Concat(_)
Concat(ps) == IF ps = <<>> THEN <<>> ELSE Head(ps) \o Concat(Tail(ps))

\* the ways to put n pieces one after the other
PieceSeqs(n) == [1..n -> Pieces]

InitParse ==
  /\ config \in StoreEnv.configs
  /\ songAnalyses = <<>>
  /\ favorites = <<>>
  /\ searchHistory = <<>>
  /\ \E n \in 0..MaxPieces : \E ps \in PieceSeqs(n) :
       req = [IdleReq EXCEPT !.pc = "parseQuery", !.query = Some(Concat(ps))]
  /\ favReq = [s \in FavSlots |-> IdleFav]
  /\ getReq = IdleGet
  /\ client = IdleClient

\* routes.ts 36 (query.trim()), then parseQuery as searchGenius,
\* searchLyricsOvh and extractSongInfo call it
ParseQueryStep ==
  /\ req.pc = "parseQuery"
  /\ req' = [req EXCEPT !.pc = "parsed",
                        !.parsed = Some(parseQuery(Trim(Val(req.query))))]
  /\ UNCHANGED <<config, songAnalyses, favorites, searchHistory, favReq, getReq, client>>

NextParse == ParseQueryStep

SpecParse == InitParse /\ [][NextParse]_vars

\* The resolution steps run twice on one query.  req.answers holds what the
\* services answer to the first and to the second run.
ResolveAnswers ==
  [genius      : {NoResp("throw"), NoResp("nohits"), GeniusHit(Some(1999))},
   lastfm      : {NoResp("notrack"), LastFmTrack(Some(<<"rock">>), Some(2005))},
   ovh         : {NoResp("throw"), OvhData(Some(<<"la">>))},
   musicbrainz : {NoResp("throw"), NoResp("notok"), NoResp("norecordings"),
                  Recording(Some(<<"T">>), Undef, Some(2010), Some(<<"pop">>))}]

ResolveQueries == {<<"a">>, <<" ", "b", " ", "-", " ", "a">>}

\* routes.ts 36-44: searchSong(query.trim()), getSongDetails, the spread
Resolve(query, cfg, a) ==
  LET songInfo == Val(searchSong(Trim(query), cfg, a).info)
  IN Spread(songInfo, getSongDetails(songInfo.title, songInfo.artist, a.musicbrainz))

InitResolve ==
  /\ config \in SearchEnv.configs
  /\ songAnalyses = <<>>
  /\ favorites = <<>>
  /\ searchHistory = <<>>
  /\ \E q \in ResolveQueries, a1 \in ResolveAnswers, a2 \in ResolveAnswers :
       req = [IdleReq EXCEPT !.pc = "resolve", !.query = Some(q),
                             !.answers = Some(<<a1, a2>>)]
  /\ favReq = [s \in FavSlots |-> IdleFav]
  /\ getReq = IdleGet
  /\ client = IdleClient

ResolveStep ==
  /\ req.pc = "resolve"
  /\ req' = [req EXCEPT !.pc = "resolveAgain",
                        !.first = Some(Resolve(Val(req.query), config,
                                               Val(req.answers)[1])),
                        !.songInfo = searchSong(Trim(Val(req.query)), config,
                                                Val(req.answers)[1]).info,
                        !.detailedInfo =
                          LET songInfo == Val(searchSong(Trim(Val(req.query)), config,
                                                         Val(req.answers)[1]).info)
                          IN Some(getSongDetails(songInfo.title, songInfo.artist,
                                                 Val(req.answers)[1].musicbrainz)),
                        !.calls = searchSong(Trim(Val(req.query)), config,
                                             Val(req.answers)[1]).calls
                                    \o <<"getSongDetails">>]
  /\ UNCHANGED <<config, songAnalyses, favorites, searchHistory, favReq, getReq, client>>

\* a second run that leaves getSongDetails out for a song resolved before
ResolveAgainStep_skipsDetails ==
  /\ req.pc = "resolveAgain"
  /\ req' = [req EXCEPT !.pc = "resolved",
                        !.finalSongInfo =
                          searchSong(Trim(Val(req.query)), config,
                                     Val(req.answers)[2]).info]
  /\ UNCHANGED <<config, songAnalyses, favorites, searchHistory, favReq, getReq, client>>

ResolveAgainStep ==
  /\ req.pc = "resolveAgain"
  /\ req' = [req EXCEPT !.pc = "resolved",
                        !.finalSongInfo = Some(Resolve(Val(req.query), config,
                                                       Val(req.answers)[2]))]
  /\ UNCHANGED <<config, songAnalyses, favorites, searchHistory, favReq, getReq, client>>

NextResolve == ResolveStep \/ ResolveAgainStep

SpecResolve == InitResolve /\ [][NextResolve]_vars

\* analyzeLyrics on its own.  The object the model's JSON text stands for
\* has each of the four keys or lacks it; a text value is empty or not, the
\* themes value is a list or something else.
KeyPart(k, o) == IF o = Undef THEN EmptyObject ELSE [x \in {k} |-> Val(o)]

TextValues == {Undef, Some(Some(<<>>)), Some(Some(<<"m">>))}
ThemesValues ==
  {Undef, Some(NotAList), Some(Themes(<<>>)), Some(Themes(<<<<"love">>, <<"loss">>>>))}

ModelObjects ==
  {KeyPart("meaning", m) @@ KeyPart("themes", t) @@ KeyPart("mood", d)
     @@ KeyPart("interpretation", i) :
     m \in TextValues, t \in ThemesValues, d \in TextValues, i \in TextValues}

ModelAnswers ==
  {LlmThrow, LlmContent(Undef), LlmContent(JsonText("empty")),
   LlmContent(JsonText("malformed")), LlmContent(JsonText("null"))}
    \cup {LlmContent(JsonObject(o)) : o \in ModelObjects}

InitAnalyze ==
  /\ config \in StoreEnv.configs
  /\ songAnalyses = <<>>
  /\ favorites = <<>>
  /\ searchHistory = <<>>
  /\ \E l \in ModelAnswers :
       req = [IdleReq EXCEPT !.pc = "analyzeLyrics", !.variant = "lyrics",
                             !.llm = Some(l)]
  /\ favReq = [s \in FavSlots |-> IdleFav]
  /\ getReq = IdleGet
  /\ client = IdleClient

\* routes.ts 51-55 with the catch of 98-104
AnalyzeLyricsStep ==
  /\ req.pc = "analyzeLyrics"
  /\ LET a == analyzeLyrics(Val(req.llm))
         r == [req EXCEPT !.calls = Append(@, "analyzeLyrics")]
     IN req' = IF a.threw THEN Respond(r, 500)
               ELSE [r EXCEPT !.pc = "analyzed", !.lyricsAnalysis = Some(a)]
  /\ UNCHANGED <<config, songAnalyses, favorites, searchHistory, favReq, getReq, client>>

NextAnalyze == AnalyzeLyricsStep

SpecAnalyze == InitAnalyze /\ [][NextAnalyze]_vars

\* ------------------------------------------------------------ the browser
\* DataProvider (DataContext.tsx) under a page that toggles favorites
\* (home.tsx, the history page).  The user is signed in.  client.loads are
\* the loadData calls waiting for their two answers; a load carries the
\* number it was started with, client.shown is the number of the load whose
\* answers were set last, client.failed tells that a load was rejected.

\* prevFavorites.findIndex(...), counted from 1; 0 when there is none
findIndex(prevFavorites, songAnalysisId) ==
  LET found == {i \in 1..Len(prevFavorites) :
                  prevFavorites[i].songAnalysisId = songAnalysisId}
  IN IF found = {} THEN 0 ELSE CHOOSE i \in found : \A j \in found : i <= j

\* prevFavorites.filter((_, index) => index !== existingIndex)
RemoveAt(rows, k) ==
  [i \in 1..(Len(rows) - 1) |-> IF i < k THEN rows[i] ELSE rows[i + 1]]

\* the updater of optimisticToggleFavorite (DataContext.tsx 57-78): history
\* and userId are those of the render that made the function
optimisticToggleFavorite(prevFavorites, history, userId, songAnalysisId) ==
  LET existingIndex == findIndex(prevFavorites, songAnalysisId)
      songAnalysis == {history[i] : i \in {j \in 1..Len(history) :
                                             history[j].id = songAnalysisId}}
  IN IF existingIndex >= 1
       THEN RemoveAt(prevFavorites, existingIndex)
       ELSE IF songAnalysis # {}
              THEN Append(prevFavorites,
                          [userId |-> userId, songAnalysisId |-> songAnalysisId,
                           songAnalysis |-> CHOOSE a \in songAnalysis : TRUE])
              ELSE prevFavorites

\* isFavorited of the pages (home.tsx 28-30)
isFavorited(favs, songId) == \E i \in 1..Len(favs) : favs[i].songAnalysisId = songId

\* loadData past its guard up to the await (DataContext.tsx 30-35)
StartLoad(c) ==
  [c EXCEPT !.isLoading = TRUE, !.started = @ + 1,
            !.loads = @ \cup {[n |-> c.started + 1, pc |-> "sent",
                               favorites |-> <<>>, history |-> <<>>]}]

\* loadData (DataContext.tsx 27-28); hasLoaded is the value of the render
\* that made the function
loadData(c, hasLoaded) == IF hasLoaded THEN c ELSE StartLoad(c)

\* the effect of DataContext.tsx 81-85, run after a render that changed
\* hasLoaded
useEffect(c) == IF ~c.hasLoaded THEN loadData(c, c.hasLoaded) ELSE c

\* refreshData (DataContext.tsx 50-53): its loadData sees the hasLoaded of
\* its own render; setHasLoaded(false) brings a render and the effect when
\* it changes the value
refreshData(c) ==
  LET called == loadData([c EXCEPT !.hasLoaded = FALSE], c.hasLoaded)
  IN IF c.hasLoaded THEN useEffect(called) ELSE called

InitClient ==
  /\ config = [genius |-> FALSE, lastfm |-> FALSE]
  /\ songAnalyses = SeedAnalyses
  /\ favorites = <<>>
  /\ searchHistory = SeedHistory
  /\ req = IdleReq
  /\ favReq = [s \in FavSlots |-> IdleFav]
  /\ getReq = IdleGet
  /\ \E u \in Users : client = [IdleClient EXCEPT !.userId = u]

\* the first effect of the provider (DataContext.tsx 81-85)
Mount ==
  /\ ~client.mounted
  /\ client' = useEffect([client EXCEPT !.mounted = TRUE])
  /\ UNCHANGED <<config, songAnalyses, favorites, searchHistory, req, favReq, getReq>>

\* the server answers GET /api/favorites and GET /api/songs/history of one
\* load (routes.ts 108-119 and 174-183)
ServeLoad ==
  /\ \E l \in client.loads :
       /\ l.pc = "sent"
       /\ client' = [client EXCEPT !.loads = (@ \ {l}) \cup
            {[l EXCEPT !.pc = "served",
                       !.favorites = getUserFavorites(favorites, songAnalyses,
                                                      client.userId),
                       !.history = getUserSongAnalyses(songAnalyses,
                                                       client.userId, 20)]}]
  /\ UNCHANGED <<config, songAnalyses, favorites, searchHistory, req, favReq, getReq>>

\* both answers of a load are there (DataContext.tsx 37-42, 46)
LoadArrives ==
  /\ \E l \in client.loads :
       /\ l.pc = "served"
       /\ client' = useEffect([client EXCEPT !.favorites = l.favorites,
                                             !.history = l.history,
                                             !.hasLoaded = TRUE,
                                             !.isLoading = FALSE,
                                             !.shown = l.n,
                                             !.loads = @ \ {l}])
  /\ UNCHANGED <<config, songAnalyses, favorites, searchHistory, req, favReq, getReq>>

\* a fetch of a load is rejected (DataContext.tsx 43-47)
LoadFails ==
  /\ \E l \in client.loads :
       client' = [client EXCEPT !.isLoading = FALSE, !.failed = TRUE,
                                !.loads = @ \ {l}]
  /\ UNCHANGED <<config, songAnalyses, favorites, searchHistory, req, favReq, getReq>>

\* toggleFavorite (home.tsx 85-105, the history page 67-87); the buttons
\* are disabled while a mutation is pending
Toggle ==
  /\ client.mounted
  /\ client.mutation.status # "pending"
  /\ \E id \in 1..MaxAnalyses :
       client' = [client EXCEPT
         !.favorites = optimisticToggleFavorite(@, client.history,
                                                client.userId, id),
         !.mutation = [status |-> "pending",
                       which |-> IF isFavorited(client.favorites, id)
                                   THEN "remove" ELSE "add",
                       songAnalysisId |-> id,
                       history |-> client.history]]
  /\ UNCHANGED <<config, songAnalyses, favorites, searchHistory, req, favReq, getReq>>

\* the server answers the mutation with 201 or 204 (routes.ts 139-172) and
\* onSuccess calls refreshData (home.tsx 69-71, 79-81)
MutationSucceeds ==
  /\ client.mutation.status = "pending"
  /\ client.started < MaxLoads
  /\ IF client.mutation.which = "add"
       THEN /\ ~isFavorite(favorites, client.userId, client.mutation.songAnalysisId)
            /\ ForeignKeyOk(songAnalyses, client.mutation.songAnalysisId)
            /\ favorites' = addToFavorites(favorites,
                 [userId |-> client.userId,
                  songAnalysisId |-> client.mutation.songAnalysisId])
       ELSE favorites' = removeFromFavorites(favorites, client.userId,
                                             client.mutation.songAnalysisId)
  /\ client' = refreshData([client EXCEPT !.mutation.status = "success"])
  /\ UNCHANGED <<config, songAnalyses, searchHistory, req, favReq, getReq>>

\* the mutation is rejected (400, 500 or no answer): onError toggles again
\* with the function of the render that made the call (home.tsx 92-95,
\* 99-102)
MutationFails ==
  /\ client.mutation.status = "pending"
  /\ client' = [client EXCEPT
       !.mutation.status = "error",
       !.favorites = optimisticToggleFavorite(@, client.mutation.history,
                       client.userId, client.mutation.songAnalysisId)]
  /\ UNCHANGED <<config, songAnalyses, favorites, searchHistory, req, favReq, getReq>>

NextClient ==
  \/ Mount
  \/ ServeLoad
  \/ LoadArrives
  \/ LoadFails
  \/ Toggle
  \/ MutationSucceeds
  \/ MutationFails

SpecClient == InitClient /\ [][NextClient]_vars

\* ------------------------------------------------------------------ claims
\* the fields of the request in flight, once they are known
SongInfo == Val(req.songInfo)
Final    == Val(req.finalSongInfo)
Detailed == Val(req.detailedInfo)

\* C1: merge priority in searchSong: when the lyrics source (Genius or
\* lyrics.ovh) returned a genre (a year) and Last.fm returned a different
\* non-empty one, the resolved genre (year) is the lyrics source's; the
\* enrichment fills genre and year only where the lyrics result left them
\* absent.
C1_LyricsSourceWins ==
  (req.source # Undef /\ req.songInfo # Undef) =>
     /\ TruthyNum(Get(Val(req.source), "year"))
          => Get(SongInfo, "year") = Get(Val(req.source), "year")
     /\ TruthyStr(Get(Val(req.source), "genre"))
          => Get(SongInfo, "genre") = Get(Val(req.source), "genre")

\* C2: canonical-metadata non-override: a year (genre) already set by the
\* lyrics/enrichment step is unchanged after the result of getSongDetails
\* is merged, whatever that result is.
C2_CanonicalNeverOverrides ==
  req.finalSongInfo # Undef =>
     /\ TruthyNum(Get(SongInfo, "year")) => Get(Final, "year") = Get(SongInfo, "year")
     /\ TruthyStr(Get(SongInfo, "genre")) => Get(Final, "genre") = Get(SongInfo, "genre")

\* C3: first non-empty wins for every field: a title or artist supplied by
\* a lyrics source or by the parsed query is never replaced by the
\* canonical provider's, and a field the earlier steps left empty takes the
\* canonical provider's value.
C3_FirstNonEmptyWins ==
  req.finalSongInfo # Undef =>
     /\ \A k \in {"title", "artist", "genre", "lyrics"} :
          Get(Final, k) = OrStr(Get(SongInfo, k), Get(Detailed, k))
     /\ Get(Final, "year") = OrNum(Get(SongInfo, "year"), Get(Detailed, "year"))

\* actual lyric text: not absent, not the "Lyrics not found" sentinel, not
\* the placeholder getGeniusLyrics returns in place of lyrics
ActualLyricText(l) ==
  TruthyStr(l) /\ l # Some(NotFound) /\ l # Some(Placeholder)

\* C4: analysis dispatch: the request uses analyzeLyrics if and only if the
\* resolved song's lyrics field holds actual lyric text, and
\* generateSongMeaning otherwise.
C4_DispatchOnLyricText ==
  req.variant # "none" =>
     (req.variant = "lyrics" <=> ActualLyricText(Get(Final, "lyrics")))

AllDefaults ==
  [threw |-> FALSE, meaning |-> DefaultMeaning, themes |-> <<>>,
   mood |-> DefaultMood, interpretation |-> DefaultInterpretation]

\* C5: when the model's content is not valid JSON, analyzeLyrics returns
\* the all-defaults result and the search request does not fail.
C5_MalformedDegrades ==
  (req.variant = "lyrics" /\ req.llm = Some(LlmContent(JsonText("malformed")))) =>
     /\ req.status # 500
     /\ req.lyricsAnalysis = Some(AllDefaults)

\* C6: on the lyrics-grounded path the stored lyricsAnalysis is the joined
\* display string unmodified and the stored genre and yearReleased are the
\* resolver's values, whatever text the model put in its fields.
C6_ExtractionOnlyOnMetadataPath ==
  (req.variant = "lyrics" /\ req.saved # Undef) =>
     /\ Val(req.saved).lyricsAnalysis = DisplayString(Val(req.lyricsAnalysis))
     /\ Val(req.saved).genre = OrStr(Get(Final, "genre"), Undef)
     /\ Val(req.saved).yearReleased = OrNum(Get(Final, "year"), Undef)

Called(r, name) == Cardinality({i \in 1..Len(r.calls) : r.calls[i] = name})

\* the analysis of the request threw: the language-model call rejected, or
\* (analyzeLyrics) its content did not parse to an object
LlmCallFailed(r) ==
  /\ r.llm # Undef
  /\ \/ Val(r.llm).kind = "throw"
     \/ /\ r.variant = "lyrics"
        /\ JSONparse(Val(r.llm).content).threw \/ JSONparse(Val(r.llm).content).isNull

\* C7: if the language-model call fails, the search request ends in a
\* failure response, no analysis is substituted, neither createSongAnalysis
\* nor addToSearchHistory is invoked, and the step that fails leaves the
\* stored analyses and the history as they were.
C7_AnalysisFailureNotPersisted ==
  [][/\ LlmCallFailed(req') =>
          /\ req'.pc = "done" /\ req'.status = 500
          /\ req'.analysis = Undef /\ req'.lyricsAnalysis = Undef
          /\ req'.saved = Undef /\ req'.body = Undef
          /\ Called(req', "createSongAnalysis") = 0
          /\ Called(req', "addToSearchHistory") = 0
     /\ (~LlmCallFailed(req) /\ LlmCallFailed(req')) =>
          /\ songAnalyses' = songAnalyses
          /\ searchHistory' = searchHistory]_vars

\* C7 witness: a request whose model call failed has ended, with an earlier
\* analysis and its history entry still stored
C7_Witness ==
  /\ LlmCallFailed(req) /\ req.pc = "done"
  /\ Len(songAnalyses) = 1 /\ Len(searchHistory) = 1

HistoryRows == {searchHistory[i] : i \in 1..Len(searchHistory)}

\* C8: addToSearchHistory is invoked only after createSongAnalysis returned
\* a row in the same request; if createSongAnalysis fails no history entry
\* is created; every history entry references the id of a stored analysis.
C8_NoOrphanHistory ==
  /\ \A h \in HistoryRows : getSongAnalysis(songAnalyses, h.songAnalysisId) # {}
  /\ Called(req, "addToSearchHistory") > 0 =>
       /\ req.saved # Undef
       /\ Called(req, "createSongAnalysis") = 1
       /\ req.calls[Len(req.calls) - 1] = "createSongAnalysis"
       /\ getSongAnalysis(songAnalyses, Val(req.saved).id) = req.saved
  /\ (Called(req, "createSongAnalysis") > 0 /\ req.saved = Undef) =>
       /\ req.pc = "done" /\ req.status = 500
       /\ Called(req, "addToSearchHistory") = 0

\* C8 witness: createSongAnalysis failed in a request that followed a
\* successful one, whose history entry is stored
C8_Witness ==
  /\ Called(req, "createSongAnalysis") > 0 /\ req.saved = Undef
  /\ Len(searchHistory) = 1
  /\ searchHistory[1].songAnalysisId = 1

\* C9: each successful search creates exactly one new analysis record and
\* exactly one history entry (the requester's userId, the submitted query
\* text, the new analysis id); no step updates, overwrites or removes an
\* existing analysis record.
C9_PersistOnceNeverInPlace ==
  [][/\ Len(songAnalyses') \in {Len(songAnalyses), Len(songAnalyses) + 1}
     /\ \A i \in 1..Len(songAnalyses) : songAnalyses'[i] = songAnalyses[i]
     /\ Len(songAnalyses') = Len(songAnalyses) + 1 =>
          /\ req.pc = "createSongAnalysis"
          /\ req'.saved = Some(songAnalyses'[Len(songAnalyses')])
          /\ Val(req'.saved).id = Len(songAnalyses')
          /\ Val(req'.saved).userId = req.userId
     /\ (req.status # 200 /\ req'.status = 200) =>
          /\ Called(req', "createSongAnalysis") = 1
          /\ Called(req', "addToSearchHistory") = 1
          /\ req'.body = req.saved
          /\ UNCHANGED songAnalyses
          /\ searchHistory' =
               Append(searchHistory,
                      [userId |-> req.userId, searchQuery |-> Val(req.query),
                       songAnalysisId |-> Val(req.saved).id])]_vars

\* C9 witness: the same song searched twice with success: two records, the
\* second request answered 200
C9_Witness ==
  /\ Len(songAnalyses) = 2
  /\ songAnalyses[1].title = songAnalyses[2].title
  /\ songAnalyses[1].artist = songAnalyses[2].artist
  /\ req.status = 200 /\ Val(req.body).id = 2
  /\ Val(req.query) # Trim(Val(req.query))

Pairs == Users \X (1..(MaxAnalyses + 1))

\* C10: with add-favorite requests made one after the other, a request for
\* a (userId, songAnalysisId) that is already a favorite is answered 400
\* "Song is already in favorites" and inserts nothing, and no pair ever has
\* more than one favorite.
C10_SequentialDuplicateRejected ==
  [][/\ \A s \in FavSlots :
          (/\ favReq[s].pc = "isFavorite"
           /\ favReq'[s] # favReq[s]
           /\ PairCount(favorites, favReq[s].userId, favReq[s].songAnalysisId) >= 1)
          => /\ favReq'[s].pc = "done"
             /\ favReq'[s].status = 400
             /\ favorites' = favorites
     /\ \A p \in Pairs : PairCount(favorites', p[1], p[2]) <= 1]_vars

\* C10 witness: the second of two requests for the same pair was answered
\* 400 and the pair has one favorite
C10_Witness ==
  \E s \in FavSlots, t \in FavSlots :
     /\ s # t
     /\ favReq[s].pc = "done" /\ favReq[s].status = 201
     /\ favReq[t].pc = "done" /\ favReq[t].status = 400
     /\ favReq[t].userId = favReq[s].userId
     /\ favReq[t].songAnalysisId = favReq[s].songAnalysisId
     /\ PairCount(favorites, favReq[t].userId, favReq[t].songAnalysisId) = 1

\* C11: with add-favorite requests interleaved (the isFavorite check and the
\* addToFavorites insert of each being separate steps), every reachable
\* state holds at most one favorite per (userId, songAnalysisId).
C11_UniqueFavoriteUnderInterleaving ==
  \A u \in Users, id \in 1..(MaxAnalyses + 1) : PairCount(favorites, u, id) <= 1

\* the raw query of the request is the empty string or only whitespace
BlankQuery(r) == r.query # Undef /\ Trim(Val(r.query)) = <<>>

\* C12: a search whose raw query is empty or only whitespace ends in the
\* "Song not found" failure (404); no language-model call is made and no
\* analysis or history record is created.
C12_BlankQueryNotFound ==
  BlankQuery(req) =>
    /\ req.pc = "done" => req.status = 404
    /\ Called(req, "analyzeLyrics") = 0
    /\ Called(req, "generateSongMeaning") = 0
    /\ songAnalyses = <<>>
    /\ searchHistory = <<>>

\* the raw query of the request has a character that is not white space
NonBlankQuery(r) == r.query # Undef /\ Trim(Val(r.query)) # <<>>

\* C13: for every raw query with a non-white-space character and every
\* outcome of the adapters, searchSong returns a record (the request is never
\* answered 404) whose title and artist are non-empty; when neither lyrics
\* source gave a result the record has no lyrics and its artist is the
\* parsed artist or "Unknown Artist".
C13_ResolutionSucceedsOnNonBlank ==
  (NonBlankQuery(req) /\ req.pc \notin {"idle", "searchSong"}) =>
     /\ req.status # 404
     /\ req.songInfo # Undef
     /\ TruthyStr(SongInfo.title)
     /\ TruthyStr(SongInfo.artist)
     /\ req.source = Undef =>
          /\ "lyrics" \notin DOMAIN SongInfo
          /\ SongInfo.artist \in {parseQuery(Val(req.query)).artist,
                                  Some(UnknownArtist)}

\* C13 witness: the search ": a", from which no artist can be parsed, has
\* completed with no lyrics source answering
C13_Witness ==
  /\ req.query = Some(<<":", " ", "a">>)
  /\ req.status = 200
  /\ req.source = Undef
  /\ SongInfo.artist = Some(UnknownArtist)
  /\ SongInfo.title = Some(<<":", " ", "a">>)

\* C14: removeFromFavorites and clearUserSearchHistory, and the routes that
\* call them, leave the stored analyses as they are: a step that removes
\* favorites or history entries changes no song_analyses row.
C14_DeletesKeepAnalyses ==
  [][(\/ Len(favorites') < Len(favorites)
      \/ Len(searchHistory') < Len(searchHistory))
     => songAnalyses' = songAnalyses]_vars

\* C14 witness: both users cleared their history and a favorite that had
\* been added was removed again; the two analyses are still stored
C14_Witness ==
  /\ searchHistory = <<>>
  /\ favorites = <<>>
  /\ \E s \in FavSlots : favReq[s].pc = "done" /\ favReq[s].status = 201
  /\ songAnalyses = SeedAnalyses

\* the string handed to parseQuery and what it returned
ParserInput == Trim(Val(req.query))
Parsed == Val(req.parsed)

\* where sep first occurs in s
SepAt(s, sep) ==
  {i \in 1..(Len(s) - Len(sep) + 1) : \A k \in 1..Len(sep) : s[i + k - 1] = sep[k]}
FirstSep(s, sep) == CHOOSE i \in SepAt(s, sep) : \A j \in SepAt(s, sep) : i <= j
Before(s, i) == SubSeq(s, 1, i - 1)
After(s, i) == SubSeq(s, i + 1, Len(s))

\* C15: for every query containing " - ", parseQuery splits on the first
\* " - " only: artist is the trimmed text before it, title the trimmed
\* remainder, any further " - " staying inside the title.
C15_DashSplitsOnFirst ==
  (req.pc = "parsed" /\ SepAt(ParserInput, Dash) # {}) =>
     LET i == FirstSep(ParserInput, Dash)
     IN /\ Parsed.artist = Some(Trim(Before(ParserInput, i)))
        /\ Parsed.title = Some(Trim(After(ParserInput, i + 2)))

\* C15 witness: "a - b - a" parsed into artist "a" and title "b - a"
C15_Witness ==
  /\ req.pc = "parsed"
  /\ req.query = Some(<<"a", " ", "-", " ", "b", " ", "-", " ", "a">>)
  /\ Parsed.artist = Some(<<"a">>)
  /\ Parsed.title = Some(<<"b", " ", "-", " ", "a">>)

\* the places of a whole-word "by" (any letter case) in s
ByPositions(s) ==
  {p \in 2..(Len(s) - 1) :
     s[p] \in {"by", "BY"} /\ s[p - 1] \in {" ", "\n"} /\ s[p + 1] \in {" ", "\n"}}
FirstBy(s) == CHOOSE p \in ByPositions(s) : \A q \in ByPositions(s) : p <= q

SingleLine(s) == \A k \in 1..Len(s) : s[k] # "\n"

\* C16: for every query of the form "<X> by <Y>" ("by" a whole word, any
\* letter case; X the text before the first such "by") that contains
\* neither " - " nor ": ", parseQuery returns artist = Y and title = X,
\* both trimmed.
C16_ByRule ==
  (/\ req.pc = "parsed"
   /\ SepAt(ParserInput, Dash) = {} /\ SepAt(ParserInput, Colon) = {}
   /\ ByPositions(ParserInput) # {}) =>
     LET p == FirstBy(ParserInput)
     IN /\ Parsed.artist = Some(Trim(After(ParserInput, p)))
        /\ Parsed.title = Some(Trim(Before(ParserInput, p)))

\* C16 as the code has it: the same, for X and Y that have no line break
\* in them once trimmed.
C16_ByRuleSingleLine ==
  (/\ req.pc = "parsed"
   /\ SepAt(ParserInput, Dash) = {} /\ SepAt(ParserInput, Colon) = {}
   /\ ByPositions(ParserInput) # {}
   /\ SingleLine(Trim(Before(ParserInput, FirstBy(ParserInput))))
   /\ SingleLine(Trim(After(ParserInput, FirstBy(ParserInput))))) =>
     LET p == FirstBy(ParserInput)
     IN /\ Parsed.artist = Some(Trim(After(ParserInput, p)))
        /\ Parsed.title = Some(Trim(Before(ParserInput, p)))

\* C16 witness: "a BY b" parsed into title "a" and artist "b"
C16_Witness ==
  /\ req.pc = "parsed"
  /\ req.query = Some(<<"a", " ", "BY", " ", "b">>)
  /\ Parsed.artist = Some(<<"b">>)
  /\ Parsed.title = Some(<<"a">>)

\* the places of a "(" that has text before it and text between it and a
\* closing ")" at the end of s
ParenPositions(s) ==
  {j \in 2..(Len(s) - 2) : s[j] = "(" /\ s[Len(s)] = ")"}

\* the same places, for title and artist groups without a line break
ByPositionsSingleLine(s) ==
  {p \in ByPositions(s) :
     SingleLine(TrimEnd(Before(s, p))) /\ SingleLine(TrimStart(After(s, p)))}
ParenPositionsSingleLine(s) ==
  {j \in ParenPositions(s) :
     SingleLine(TrimEnd(Before(s, j))) /\ SingleLine(SubSeq(s, j + 1, Len(s) - 1))}

Least(S) == CHOOSE x \in S : \A y \in S : x <= y

\* the result of the first rule that matches s, in the fixed order; byAt
\* and parenAt are the places where the third and fourth pattern match
FirstRule(s, byAt, parenAt) ==
  IF SepAt(s, Dash) # {}
    THEN [artist |-> Some(Trim(Before(s, FirstSep(s, Dash)))),
          title  |-> Some(Trim(After(s, FirstSep(s, Dash) + 2)))]
  ELSE IF SepAt(s, Colon) # {}
    THEN [artist |-> Some(Trim(Before(s, FirstSep(s, Colon)))),
          title  |-> Some(Trim(After(s, FirstSep(s, Colon) + 1)))]
  ELSE IF byAt # {}
    THEN [artist |-> Some(Trim(After(s, Least(byAt)))),
          title  |-> Some(Trim(Before(s, Least(byAt))))]
  ELSE IF parenAt # {}
    THEN [artist |-> Some(Trim(SubSeq(s, Least(parenAt) + 1, Len(s) - 1))),
          title  |-> Some(Trim(Before(s, Least(parenAt))))]
  ELSE [artist |-> Undef, title |-> Some(Trim(s))]

AllTrimmed(r) ==
  /\ r.title # Undef /\ Val(r.title) = Trim(Val(r.title))
  /\ r.artist # Undef => Val(r.artist) = Trim(Val(r.artist))

\* C17: for every input, parseQuery returns the result of the first
\* matching rule in the order " - " split, ": " split, "<title> by
\* <artist>", trailing "<title> (<artist>)", else artist absent and title
\* the trimmed input; every returned substring is trimmed; a query with
\* both " - " and "by" is resolved by the " - " rule.
C17_FirstMatchingRule ==
  req.pc = "parsed" =>
     /\ Parsed = FirstRule(ParserInput, ByPositions(ParserInput),
                           ParenPositions(ParserInput))
     /\ AllTrimmed(Parsed)

\* C17 as the code has it: the same, the "by" and the parenthesis pattern
\* matching only where their title and artist groups have no line break.
C17_FirstMatchingRuleSingleLine ==
  req.pc = "parsed" =>
     /\ Parsed = FirstRule(ParserInput, ByPositionsSingleLine(ParserInput),
                           ParenPositionsSingleLine(ParserInput))
     /\ AllTrimmed(Parsed)

\* C17 witness: "a by - b", which has both " - " and a whole-word "by",
\* parsed by the " - " rule
C17_Witness ==
  /\ req.pc = "parsed"
  /\ req.query = Some(<<"a", " ", "by", " ", "-", " ", "b">>)
  /\ ByPositions(ParserInput) # {}
  /\ Parsed.artist = Some(<<"a", " ", "by">>)
  /\ Parsed.title = Some(<<"b">>)

\* C18: a failure inside searchGenius, searchLyricsOvh, getLastFmTrackInfo
\* or getSongDetails (rejected fetch, non-OK answer, empty result, missing
\* credential) is absorbed by the adapter: whatever the services answer, the
\* request goes from searchSong on to getSongDetails and from there on to
\* the analysis, without a failure response, trying the next source when
\* one gave nothing.
C18_AdapterFailureAbsorbed ==
  [][/\ req.pc = "searchSong" =>
          /\ req'.pc = "getSongDetails" /\ req'.status = 0
          /\ req'.songInfo # Undef
          /\ req'.calls \in {<<"searchGenius", "getLastFmTrackInfo">>,
                             <<"searchGenius", "searchLyricsOvh", "getLastFmTrackInfo">>,
                             <<"searchGenius", "searchLyricsOvh", "extractSongInfo">>}
          /\ req'.source = Undef <=> Called(req', "extractSongInfo") = 1
     /\ req.pc = "getSongDetails" =>
          /\ req'.pc = "analyze" /\ req'.status = 0
          /\ req'.finalSongInfo # Undef
          /\ TruthyStr(Val(req'.finalSongInfo).artist)]_vars

\* C18 witness: with the Genius token set and a query that gives lyrics.ovh
\* an artist and a title, no source gave anything (no lyrics result, no
\* Last.fm data, no recording) and the request was answered 200
C18_Witness ==
  /\ config.genius /\ config.lastfm
  /\ req.query = Some(<<" ", "b", " ", "-", " ", "a">>)
  /\ req.source = Undef /\ req.lastFm = Undef
  /\ req.status = 200
  /\ DOMAIN Detailed = {"title", "artist"}
  /\ req.calls = <<"searchGenius", "searchLyricsOvh", "extractSongInfo",
                   "getSongDetails", "generateSongMeaning",
                   "createSongAnalysis", "addToSearchHistory">>

\* the positions at which a line of s starts
LineStarts(s) == {i \in 1..Len(s) : i = 1 \/ s[i - 1] = "\n"}

\* C19: for every analysis text passed through the extraction step, the
\* cleaned text that is stored as lyricsAnalysis has no line starting with
\* "Genre:" or "Release Year:".
C19_NoMetadataLinesLeft ==
  req.saved # Undef =>
     \A i \in LineStarts(Val(req.saved).lyricsAnalysis) :
        Val(req.saved).lyricsAnalysis[i] \notin {"Genre:", "Release Year:"}

\* C20: for every search that completes on the metadata-only path (no
\* lyrics source returned data), whatever text the language model returned,
\* the stored record's lyricsAnalysis is a non-empty string.
C20_StoredAnalysisNonEmpty ==
  (req.saved # Undef /\ req.variant = "meta" /\ req.source = Undef) =>
     Val(req.saved).lyricsAnalysis # <<>>

AnsweredObject ==
  IF Val(req.llm).content = Undef THEN EmptyObject
  ELSE Val(Val(req.llm).content).obj

TextKeys == {"meaning", "mood", "interpretation"}

DocumentedDefault(k) ==
  IF k = "meaning" THEN <<"Unable to analyze the meaning of this song.">>
  ELSE IF k = "mood" THEN <<"Unknown">>
  ELSE <<"No additional interpretation available.">>

ThemesAsDocumented(o, a) ==
  a.themes = IF "themes" \in DOMAIN o /\ o.themes.isArray THEN o.themes.items
             ELSE <<>>

\* C22: when the model returns "{}" or empty content, analyzeLyrics returns
\* exactly the documented defaults; a missing key, or a themes value that
\* is not a list, is replaced by its default while present keys are kept.
C22_DefaultFilling ==
  req.pc = "analyzed" =>
     LET a == Val(req.lyricsAnalysis)
         o == AnsweredObject
     IN /\ \A k \in TextKeys :
             a[k] = IF k \in DOMAIN o THEN Val(o[k]) ELSE DocumentedDefault(k)
        /\ ThemesAsDocumented(o, a)

\* C22 as the code has it: a key is kept when it is present with a
\* non-empty text; a missing key and a key holding the empty text are
\* replaced by the default.
C22_DefaultFillingNonEmpty ==
  req.pc = "analyzed" =>
     LET a == Val(req.lyricsAnalysis)
         o == AnsweredObject
     IN /\ \A k \in TextKeys :
             a[k] = IF k \in DOMAIN o /\ Val(o[k]) # <<>> THEN Val(o[k])
                    ELSE DocumentedDefault(k)
        /\ ThemesAsDocumented(o, a)

\* C22 witness: an answer that lacks only the mood key was analysed: the
\* mood is "Unknown", the other keys are the model's
C22_Witness ==
  /\ req.pc = "analyzed"
  /\ DOMAIN AnsweredObject = {"meaning", "themes", "interpretation"}
  /\ Val(req.lyricsAnalysis).mood = <<"Unknown">>
  /\ Val(req.lyricsAnalysis).meaning = <<"m">>
  /\ Val(req.lyricsAnalysis).themes = <<<<"love">>, <<"loss">>>>

IsPrefix(p, q) == Len(p) <= Len(q) /\ SubSeq(q, 1, Len(p)) = p

\* the orders in which a search request may make its calls
PipelineOrders ==
  {pre \o <<"getSongDetails", l, "createSongAnalysis", "addToSearchHistory">> :
     pre \in {<<"searchGenius", "getLastFmTrackInfo">>,
              <<"searchGenius", "searchLyricsOvh", "getLastFmTrackInfo">>,
              <<"searchGenius", "searchLyricsOvh", "extractSongInfo">>},
     l \in {"analyzeLyrics", "generateSongMeaning"}}

\* C23: a search request makes its calls in the order lyrics sources and
\* enrichment, then getSongDetails exactly once on every resolution path,
\* then exactly one language-model call, then createSongAnalysis, then
\* addToSearchHistory; nothing is written before the language-model call
\* has succeeded.
C23_PipelineOrder ==
  /\ \E o \in PipelineOrders : IsPrefix(req.calls, o)
  /\ req.pc \in {"analyze", "createSongAnalysis", "addToSearchHistory"} =>
       Called(req, "getSongDetails") = 1
  /\ (songAnalyses # <<>> \/ searchHistory # <<>>
      \/ Called(req, "createSongAnalysis") > 0) =>
       /\ Called(req, "analyzeLyrics") + Called(req, "generateSongMeaning") = 1
       /\ ~LlmCallFailed(req)
       /\ req.analysis # Undef

\* C23 witness: a request resolved by the query alone went through the whole
\* pipeline and was answered 200
C23_Witness ==
  /\ req.status = 200
  /\ req.calls = <<"searchGenius", "searchLyricsOvh", "extractSongInfo",
                   "getSongDetails", "generateSongMeaning",
                   "createSongAnalysis", "addToSearchHistory">>
  /\ Len(songAnalyses) = 1 /\ Len(searchHistory) = 1
  /\ DOMAIN Detailed = {"title", "artist", "year", "genre"}

\* what the first run's services answered
FirstAnswers == Val(req.answers)[1]

\* position of the first call of that name
CallAt(r, name) == CHOOSE i \in 1..Len(r.calls) : r.calls[i] = name

\* C24: within one request searchLyricsOvh is called only after the primary
\* lyrics source returned absent, getLastFmTrackInfo only after a lyrics
\* source yielded data, and no external source is called more than once (a
\* failed call is not retried).
C24_FallbackOrderNoRetry ==
  req.pc \in {"resolveAgain", "resolved"} =>
     LET primary   == searchGenius(config.genius, FirstAnswers.genius)
         secondary == searchLyricsOvh(Trim(Val(req.query)), FirstAnswers.ovh)
     IN /\ \A n \in {"searchGenius", "searchLyricsOvh", "getLastFmTrackInfo",
                     "getSongDetails"} : Called(req, n) <= 1
        /\ Called(req, "searchLyricsOvh") = 1 =>
             /\ primary = Undef
             /\ Called(req, "searchGenius") = 1
             /\ CallAt(req, "searchGenius") < CallAt(req, "searchLyricsOvh")
        /\ Called(req, "getLastFmTrackInfo") = 1 =>
             /\ primary # Undef \/ secondary # Undef
             /\ \A n \in {"searchGenius", "searchLyricsOvh"} :
                  Called(req, n) = 1 => CallAt(req, n) < CallAt(req, "getLastFmTrackInfo")
        /\ (primary = Undef /\ secondary = Undef) =>
             Called(req, "getLastFmTrackInfo") = 0

\* C24 witness: the Genius fetch was rejected, lyrics.ovh was asked once
\* and answered, Last.fm was asked after it
C24_Witness ==
  /\ req.pc = "resolveAgain"
  /\ config.genius /\ FirstAnswers.genius.kind = "throw"
  /\ req.calls = <<"searchGenius", "searchLyricsOvh", "getLastFmTrackInfo",
                   "getSongDetails">>

\* parseQuery gives no artist or no title for the raw query of the request
ParseIncomplete(r) ==
  \/ ~TruthyStr(parseQuery(Val(r.query)).artist)
  \/ ~TruthyStr(parseQuery(Val(r.query)).title)

\* C25: whenever the parser cannot derive both an artist and a title from
\* the raw query (e.g. "Stay"), the primary lyrics provider returns absent:
\* such a query gets no lyrics data from it.
C25_PrimaryNeedsParse ==
  (req.songInfo # Undef /\ ParseIncomplete(req)) =>
     /\ req.source = Undef
     /\ "lyrics" \notin DOMAIN SongInfo

\* C26: getSongDetails never returns absent; on a non-2xx answer, a missing
\* or empty recordings array, or a thrown error it returns exactly the
\* title and artist it was given, with no year and no genre.
C26_CanonicalEchoes ==
  req.pc \in {"resolveAgain", "resolved"} =>
     /\ req.detailedInfo # Undef
     /\ FirstAnswers.musicbrainz.kind \in {"throw", "notok", "norecordings"} =>
          Detailed = [title |-> SongInfo.title, artist |-> SongInfo.artist]

\* C26 witness: the MusicBrainz fetch was rejected for a song that Genius
\* and Last.fm had given a year and a genre; the answer is title and artist
C26_Witness ==
  /\ req.pc = "resolveAgain"
  /\ FirstAnswers.musicbrainz.kind = "throw"
  /\ TruthyNum(Get(SongInfo, "year")) /\ TruthyStr(Get(SongInfo, "genre"))
  /\ DOMAIN Detailed = {"title", "artist"}
  /\ Detailed.title = SongInfo.title

\* what follows position i of s on the same line
RestOfLine(s, i) ==
  LET Breaks == {k \in (i + 1)..Len(s) : s[k] = "\n"}
  IN SubSeq(s, i + 1, IF Breaks = {} THEN Len(s) ELSE Least(Breaks) - 1)

\* the labels "Genre:" that some text follows on their line
GenreLabelsIn(s) ==
  {i \in 1..Len(s) :
     s[i] \in {"Genre:", "genre:"} /\ Trim(RestOfLine(s, i)) # <<>>}

\* the labels "Release Year:" that four digits follow, and those digits
YearLabelsIn(s) ==
  {i \in 1..Len(s) :
     /\ s[i] \in {"Release Year:", "release year:"}
     /\ TrimStart(After(s, i)) # <<>>
     /\ Head(TrimStart(After(s, i))) \in {"1999", "2005"}}
YearAfter(s, i) == IF Head(TrimStart(After(s, i))) = "1999" THEN 1999 ELSE 2005

\* C27: on the metadata-only path the stored genre is the trimmed text that
\* follows the first "Genre:" label (any letter case) up to the end of that
\* line when there is such a label, otherwise the resolver's genre; the
\* stored yearReleased is the four-digit number following "Release Year:"
\* when there is one, otherwise the resolver's year; what the model states
\* overrides the resolver's value.
C27_ExtractedMetadataPriority ==
  (req.saved # Undef /\ req.variant = "meta") =>
     LET text == Val(req.analysis)
     IN /\ IF GenreLabelsIn(text) # {}
             THEN Val(req.saved).genre =
                    Some(Trim(RestOfLine(text, Least(GenreLabelsIn(text)))))
             ELSE Val(req.saved).genre = OrStr(Get(Final, "genre"), Undef)
        /\ IF YearLabelsIn(text) # {}
             THEN Val(req.saved).yearReleased =
                    Some(YearAfter(text, Least(YearLabelsIn(text))))
             ELSE Val(req.saved).yearReleased = OrNum(Get(Final, "year"), Undef)

\* C28: when the server mutation of a toggleFavorite(id) fails, the onError
\* revert leaves id in the local favorites list exactly if it was there
\* before the toggle (a list with id is answered by the remove mutation, a
\* list without id by the add mutation), whatever song id is, also a
\* favorited song whose analysis the loaded history list lacks.
C28_FailedToggleUndone ==
  [][(client.mutation.status = "pending" /\ client'.mutation.status = "error") =>
       (isFavorited(client'.favorites, client.mutation.songAnalysisId)
          <=> client.mutation.which = "remove")]_vars

\* C29: every analysis that the history listing, the favorites listing or
\* the get-by-id endpoint returns to a signed-in user was created by that
\* user, and no favorites row joins a user with an analysis that another
\* user created.
C29_AnalysesIsolated ==
  /\ \A a \in getReq.body : a.userId = getReq.userId
  /\ \A i \in 1..Len(favorites) :
       \A a \in getSongAnalysis(songAnalyses, favorites[i].songAnalysisId) :
          a.userId = favorites[i].userId

\* the ids of a favorites list
FavoriteIds(rows) == [i \in 1..Len(rows) |-> rows[i].songAnalysisId]

\* C30: once no load is waiting and none was rejected, the provider shows
\* the answers of the load it started last: hasLoaded is true, isLoading is
\* false, history is the server's listing, and favorites is the server's
\* listing when the last toggle, if any, succeeded before that load.  An
\* older load answered later does not replace it.
C30_RefreshConverges ==
  (client.started > 0 /\ client.loads = {} /\ ~client.failed) =>
     /\ client.shown = client.started
     /\ client.hasLoaded /\ ~client.isLoading
     /\ client.history = getUserSongAnalyses(songAnalyses, client.userId, 20)
     /\ client.mutation.status \in {"idle", "success"} =>
          FavoriteIds(client.favorites) =
            FavoriteIds(getUserFavorites(favorites, songAnalyses, client.userId))

====
